---- MODULE Spec2Model ----
(***************************************************************************)
(* Hook-injection pipeline of the Fates 3GX SDK: scripts/make_inline.py    *)
(* (ARM, 8 stolen bytes, hook table header) and scripts/make_bps.py        *)
(* (Thumb, 10 stolen bytes, BPS patch with round-trip verification).       *)
(*                                                                         *)
(* Conventions.  A byte string is a sequence of integers 0..255; offsets   *)
(* are Python's (0-based), so byte i of s is s[i+1].  A pattern (AOB) is a *)
(* sequence of tokens, a token a pair <<hi, lo>> of nibble characters,     *)
(* each a hex digit 0..15 or Q for '?'.  An absent (None or empty) pattern *)
(* is the empty sequence.                                                  *)
(***************************************************************************)
EXTENDS Integers, Sequences, FiniteSets, TLC

VARIABLES
    script,       \* "inline" (make_inline.py) or "bps" (make_bps.py)
    patch_sites,  \* args.patch_sites (make_inline.py only)
    base_bin,     \* content of the base code.bin on disk
    expected,     \* fingerprint of bases/<region>.sha1
    yml,          \* hook map of addresses/<region>.yml, in declared order
    pc,           \* position of main()
    err,          \* why the run aborted ("" while it has not)
    buf,          \* in-memory original image
    mod,          \* mutable image
    hooks,        \* loaded hook map
    arena_off, arena_need, cur,
    ti,           \* position of the hook loop: index of the next target
    rows,         \* rows / hook_records, in append order
    log,          \* per processed target: what the loop body did with it
    written,      \* files this run has written, in order
    out_mod,      \* content of build/code_mod.bin as written
    verify_bin,   \* content of build/code_mod_verify.bin as written
    header,       \* content of hooks_table.hpp as written
    fn            \* a pure function under test: its inputs and result

mainVars == <<script, patch_sites, base_bin, expected, yml, pc, err, buf, mod,
              hooks, arena_off, arena_need, cur, ti, rows, log, written,
              out_mod, verify_bin, header>>
vars == <<mainVars, fn>>

(***************************************************************************)
(* Bounds of the model.                                                    *)
(***************************************************************************)
MaxScanLen == 3     \* longest image given to scan on its own
MaxPatLen  == 2     \* longest pattern given to scan on its own
MaxCaveLen == 5     \* longest image given to find_code_cave on its own
MaxNeed    == 3     \* largest need given to find_code_cave on its own

(***************************************************************************)
(* Python and byte helpers.                                                *)
(***************************************************************************)
Q == 16             \* the nibble character '?'
None == -1          \* Python's None where the code reads it like "no site"

Min(a, b) == IF a < b THEN a ELSE b
Max(a, b) == IF a > b THEN a ELSE b

RECURSIVE BitAnd(_, _)
BitAnd(a, b) ==
    IF a = 0 \/ b = 0 THEN 0
    ELSE (a % 2) * (b % 2) + 2 * BitAnd(a \div 2, b \div 2)

RECURSIVE BitOr(_, _)
BitOr(a, b) ==
    IF a = 0 THEN b
    ELSE IF b = 0 THEN a
    ELSE Max(a % 2, b % 2) + 2 * BitOr(a \div 2, b \div 2)

\* a slice bound k of a sequence of length n, as Python clamps it
PyIdx(n, k) == IF k < 0 THEN Max(n + k, 0) ELSE Min(k, n)

\* s[i:j]
Slice(s, i, j) ==
    LET a == PyIdx(Len(s), i)
        b == PyIdx(Len(s), j)
    IN  IF b <= a THEN <<>> ELSE SubSeq(s, a + 1, b)

\* s[i:j] = v on a bytearray: the slice is replaced, the array may grow
SliceAssign(s, i, j, v) ==
    LET a == PyIdx(Len(s), i)
        b == Max(a, PyIdx(Len(s), j))
    IN  SubSeq(s, 1, a) \o v \o SubSeq(s, b + 1, Len(s))

Fill(n, b) == [k \in 1..n |-> b]

SeqsUpTo(S, n) == UNION {[1..k -> S] : k \in 0..n}

(***************************************************************************)
(* make_inline.py: AOB with byte/nibble wildcards.                         *)
(***************************************************************************)
hex_nibble(ch) == IF ch = Q THEN None ELSE ch

parse_token(tok) ==
    LET hiN == hex_nibble(tok[1])
        loN == hex_nibble(tok[2])
    IN  IF hiN = None
        THEN IF loN = None
             THEN <<0, 0>>                                   \* '??'
             ELSE <<BitOr(0, loN), BitOr(0, 15)>>            \* '?X'
        ELSE IF loN = None
             THEN <<BitOr(0, hiN * 16), BitOr(0, 240)>>      \* 'X?'
             ELSE <<BitOr(BitOr(0, hiN * 16), loN),
                    BitOr(BitOr(0, 240), 15)>>               \* 'XY'

\* <<pat, msk>>
aob_to_pat_mask(aob) ==
    <<[k \in 1..Len(aob) |-> parse_token(aob[k])[1]],
      [k \in 1..Len(aob) |-> parse_token(aob[k])[2]]>>

\* window_ok comparing whole bytes wherever the mask is not zero
window_ok_unmasked(w, pat, msk) ==
    \A k \in 1..Min(Len(w), Min(Len(pat), Len(msk))) :
        ~(msk[k] # 0 /\ w[k] # pat[k])

\* the inner loop of scan: zip(w, pat, msk) stops at the shortest of the three
window_ok(w, pat, msk) ==
    \A k \in 1..Min(Len(w), Min(Len(pat), Len(msk))) :
        ~(msk[k] # 0 /\ BitAnd(w[k], msk[k]) # BitAnd(pat[k], msk[k]))

\* for i in range(lo, hi + 1): the first i whose window matches, else -1.
\* The range is walked in order, split in halves to keep the evaluation
\* shallow.
RECURSIVE scan_range(_, _, _, _, _)
scan_range(b, pat, msk, lo, hi) ==
    IF lo > hi THEN -1
    ELSE IF lo = hi
         THEN IF window_ok(Slice(b, lo, lo + Len(pat)), pat, msk) THEN lo ELSE -1
         ELSE LET mid   == (lo + hi) \div 2
                  first == scan_range(b, pat, msk, lo, mid)
              IN  IF first >= 0 THEN first
                  ELSE scan_range(b, pat, msk, mid + 1, hi)

scan(b, pat, msk) == scan_range(b, pat, msk, 0, Len(b) - Len(pat))

(***************************************************************************)
(* find_code_cave, both variants.                                          *)
(***************************************************************************)
IsFiller(x) == x \in {0, 255}

\* make_inline.py: backward scan accumulating a run length.
\* for i in range(hi, lo - 1, -1) entered with run: <<returned, value>>, the
\* value being the offset returned or else the run length the range ends with.
RECURSIVE cave_run(_, _, _, _, _)
cave_run(b, need, hi, lo, run) ==
    IF hi < lo THEN <<FALSE, run>>
    ELSE IF hi = lo
         THEN IF IsFiller(b[hi + 1])
              THEN IF run + 1 >= need THEN <<TRUE, hi>> ELSE <<FALSE, run + 1>>
              ELSE <<FALSE, 0>>
         ELSE LET mid   == (lo + hi + 1) \div 2
                  first == cave_run(b, need, hi, mid, run)
              IN  IF first[1] THEN first
                  ELSE cave_run(b, need, mid - 1, lo, first[2])

\* find_code_cave returning only once the run exceeds need
find_code_cave_strict(b, need) ==
    LET r == cave_run(b, need + 1, Len(b) - 1, 0, 0)
    IN  IF r[1] THEN r[2] ELSE -1

find_code_cave(b, need) ==
    LET r == cave_run(b, need, Len(b) - 1, 0, 0)
    IN  IF r[1] THEN r[2] ELSE -1

all_filler(chunk) == \A k \in 1..Len(chunk) : IsFiller(chunk[k])

\* make_bps.py: backward scan testing the window at each offset,
\* for i in range(hi, lo - 1, -1)
RECURSIVE cave_window(_, _, _, _)
cave_window(b, need, hi, lo) ==
    IF hi < lo THEN -1
    ELSE IF hi = lo
         THEN IF all_filler(Slice(b, hi, hi + need)) THEN hi ELSE -1
         ELSE LET mid   == (lo + hi + 1) \div 2
                  first == cave_window(b, need, hi, mid)
              IN  IF first >= 0 THEN first
                  ELSE cave_window(b, need, mid - 1, lo)

find_code_cave_bps(b, need, prefer_from) ==
    LET start == IF prefer_from = None
                 THEN Len(b) - need
                 ELSE Max(0, Min(Len(b) - need, prefer_from))
    IN  cave_window(b, need, start, 0)

(***************************************************************************)
(* Program constants.                                                      *)
(***************************************************************************)
CODE_BASE       == 1048576   \* 0x00100000
STOLEN_SIZE     == 8         \* make_inline.py
per_tramp       == 96        \* 0x60, make_inline.py
STOLEN_BPS      == 10        \* make_bps.py: "always take 10"
arena_need_each == 64        \* 0x40, make_bps.py
GUARD_CAP       == 8         \* uint8_t guard[8]

StolenLen(s) == IF s = "inline" THEN STOLEN_SIZE ELSE STOLEN_BPS
SlotSize(s)  == IF s = "inline" THEN per_tramp ELSE arena_need_each

(***************************************************************************)
(* The external encoder (Keystone).  Its answer is its own: the model lets *)
(* it return the expected encoding ("ok") or one two bytes short ("odd").  *)
(***************************************************************************)
KsOutcomes == {"ok", "odd"}

KsResult(bytes, o) == IF o = "ok" THEN bytes ELSE Slice(bytes, 0, Len(bytes) - 2)

LE16(v) == <<v % 256, (v \div 256) % 256>>
LE32(v) == LE16(v % 65536) \o LE16((v \div 65536) % 65536)
Bit(v, k) == (v \div (2 ^ k)) % 2

\* ldr pc, [pc, #-4] ; .word to_va
AbsJumpBytes(to_va) == <<4, 240, 31, 229>> \o LE32(to_va)

\* <<raised, bytes>>: SystemExit unless the encoding has 8 bytes
asm_abs_jump_va(to_va, origin_off, o) ==
    LET b == KsResult(AbsJumpBytes(to_va), o)
    IN  <<Len(b) # 8, b>>

\* Thumb-2 B.W (encoding T4) of a signed byte offset
BranchWBytes(delta) ==
    LET v     == delta % 33554432
        S     == Bit(v, 24)
        J1    == 1 - ((Bit(v, 23) + S) % 2)
        J2    == 1 - ((Bit(v, 22) + S) % 2)
        imm10 == (v \div 4096) % 1024
        imm11 == (v \div 2) % 2048
    IN  LE16(61440 + S * 1024 + imm10)
        \o LE16(36864 + J1 * 8192 + J2 * 2048 + imm11)

\* Thumb-2 MOVW/MOVT r12, #imm16 (encoding T3 / T1)
MovBytes(op, imm16) ==
    LET imm4 == (imm16 \div 4096) % 16
        i    == (imm16 \div 2048) % 2
        imm3 == (imm16 \div 256) % 8
        imm8 == imm16 % 256
    IN  LE16(op + i * 1024 + imm4) \o LE16(imm3 * 4096 + 12 * 256 + imm8)

\* movw r12, #lo ; movt r12, #hi ; bx r12
DetourBytes(lo16, hi16) ==
    MovBytes(62016, lo16) \o MovBytes(62144, hi16) \o <<96, 71>>

\* <<raised, bytes>>: SystemExit unless the encoding has 10 bytes
assemble_detour(lo16, hi16, o) ==
    LET b == KsResult(DetourBytes(lo16, hi16), o)
    IN  <<Len(b) # 10, b>>

NOP16 == <<0, 191>>

(***************************************************************************)
(* make_bps.py: AOB with whole-byte wildcards only.                        *)
(***************************************************************************)
\* int(t, 16) raises ValueError on a token that holds a '?' and is not "??"
bps_token_raises(tok) == (tok[1] = Q) # (tok[2] = Q)

aob_raises(aob) == \E k \in 1..Len(aob) : bps_token_raises(aob[k])

aob_to_bytes_mask(aob) ==
    <<[k \in 1..Len(aob) |->
          IF aob[k] = <<Q, Q>> THEN 0 ELSE aob[k][1] * 16 + aob[k][2]],
      [k \in 1..Len(aob) |-> IF aob[k] = <<Q, Q>> THEN 0 ELSE 255]>>

\* the comparison of scan_aob and of the guard check
bytes_ok(w, pat, msk) ==
    \A k \in 1..Min(Len(w), Min(Len(pat), Len(msk))) :
        ~(msk[k] # 0 /\ w[k] # pat[k])

RECURSIVE scan_aob_range(_, _, _, _, _)
scan_aob_range(b, pat, msk, lo, hi) ==
    IF lo > hi THEN -1
    ELSE IF lo = hi
         THEN IF bytes_ok(Slice(b, lo, lo + Len(pat)), pat, msk) THEN lo ELSE -1
         ELSE LET mid   == (lo + hi) \div 2
                  first == scan_aob_range(b, pat, msk, lo, mid)
              IN  IF first >= 0 THEN first
                  ELSE scan_aob_range(b, pat, msk, mid + 1, hi)

scan_aob(b, pat, msk) == scan_aob_range(b, pat, msk, 0, Len(b) - Len(pat))

(***************************************************************************)
(* Inputs of a run: the base image and the hook map.                       *)
(***************************************************************************)
MaxHooks == 2       \* most hooks in the hook map
TailLen  == 130     \* length of the filler tail of the images that have one

\* 20 bytes of code, none of them filler
Code == <<17, 165, 34, 51, 68, 167, 85, 102, 119, 136,
          153, 171, 18, 19, 20, 21, 22, 23, 24, 25>>

Images == { Code,                                   \* no cave at all
            Code \o Fill(TailLen, 255),             \* cave at the tail
            Code \o Fill(100, 0) \o <<126>> }       \* a smaller cave inside

Tok(b) == <<b \div 16, b % 16>>

AddrHook(a) == [kind |-> "one", addr |-> <<a>>, aob |-> <<>>, guard |-> <<>>]

HookSpecs ==
    { AddrHook(a) : a \in {-3, 0, 10, 1000} }
    \cup
    { [kind |-> "list", addr |-> <<0, 10>>, aob |-> <<>>, guard |-> <<>>],
      \* guard that matches / does not match the bytes at the site
      [kind |-> "one", addr |-> <<0>>, aob |-> <<>>,
       guard |-> <<Tok(17), <<Q, Q>>, Tok(34)>>],
      [kind |-> "one", addr |-> <<10>>, aob |-> <<>>, guard |-> <<Tok(153), Tok(0)>>],
      \* a guard of nine tokens, matching the bytes at the site
      [kind |-> "one", addr |-> <<4>>, aob |-> <<>>,
       guard |-> [k \in 1..(GUARD_CAP + 1) |-> Tok(Code[4 + k])]],
      \* patterns: "A5 ?? 33" (offset 1), "A? 11" and "99 11" (nowhere)
      [kind |-> "none", addr |-> <<>>, aob |-> <<Tok(165), <<Q, Q>>, Tok(51)>>,
       guard |-> <<>>],
      [kind |-> "none", addr |-> <<>>, aob |-> <<<<10, Q>>, Tok(17)>>, guard |-> <<>>],
      [kind |-> "none", addr |-> <<>>, aob |-> <<Tok(153), Tok(17)>>, guard |-> <<>>],
      \* neither addr nor aob
      [kind |-> "none", addr |-> <<>>, aob |-> <<>>, guard |-> <<>>] }

Names == <<"hookA", "hookB", "hookC", "hookD">>

HookMaps == SeqsUpTo(HookSpecs, MaxHooks)

\* for name, spec in hooks.items(): for addr in targets (make_inline.py);
\* for name, spec in hooks.items() (make_bps.py)
targets(s, spec) ==
    IF s = "inline"
    THEN IF spec.kind = "list" THEN spec.addr
         ELSE IF spec.kind = "one" THEN spec.addr ELSE <<None>>
    ELSE <<None>>

RECURSIVE Work(_, _, _)
Work(s, hs, h) ==
    IF h > Len(hs) THEN <<>>
    ELSE [k \in 1..Len(targets(s, hs[h])) |->
             [h |-> h, name |-> Names[h], spec |-> hs[h],
              addr |-> targets(s, hs[h])[k], isAddr |-> hs[h].kind # "none"]]
         \o Work(s, hs, h + 1)

\* count_sites counting one site per hook, whatever addr holds
RECURSIVE count_sites_per_hook(_, _)
count_sites_per_hook(hs, h) ==
    IF h > Len(hs) THEN 0 ELSE 1 + count_sites_per_hook(hs, h + 1)

\* num_sites: how many hook sites (addr can be a list)
RECURSIVE count_sites(_, _)
count_sites(hs, h) ==
    IF h > Len(hs) THEN 0
    ELSE (IF hs[h].kind = "list" THEN Len(hs[h].addr)
          ELSE IF hs[h].kind = "one" THEN 1
          ELSE IF hs[h].aob # <<>> THEN 1 ELSE 0)
         + count_sites(hs, h + 1)

\* The fingerprint of a file: a digest of its whole content, standing for
\* SHA-1 (the length and the number of odd bytes; the images of the model
\* have distinct digests).
sha1(b) == <<Len(b), Cardinality({k \in 1..Len(b) : b[k] % 2 = 1})>>

NoFn == [op |-> "none"]

Init ==
    /\ script \in {"inline", "bps"}
    /\ patch_sites \in (IF script = "inline" THEN BOOLEAN ELSE {FALSE})
    /\ base_bin \in Images
    /\ expected \in {sha1(base_bin), sha1(Code)}
    /\ yml \in HookMaps
    /\ pc = "validate"
    /\ err = ""
    /\ buf = <<>> /\ mod = <<>> /\ hooks = <<>>
    /\ arena_off = 0 /\ arena_need = 0 /\ cur = 0 /\ ti = 1
    /\ rows = <<>> /\ log = <<>> /\ written = <<>>
    /\ out_mod = <<>> /\ verify_bin = <<>> /\ header = <<>>
    /\ fn = NoFn

Abort(why) == pc' = "aborted" /\ err' = why

\* Validate going on to the hook map whatever the fingerprint is
ValidateUnchecked ==
    /\ pc = "validate"
    /\ pc' = "setup" /\ err' = err
    /\ UNCHANGED <<script, patch_sites, base_bin, expected, yml, buf, mod, hooks,
                   arena_off, arena_need, cur, ti, rows, log, written,
                   out_mod, verify_bin, header, fn>>

\* read_expected / sha1 and the comparison of the two
Validate ==
    /\ pc = "validate"
    /\ IF sha1(base_bin) # expected THEN Abort("RegionMismatch")
       ELSE pc' = "setup" /\ err' = err
    /\ UNCHANGED <<script, patch_sites, base_bin, expected, yml, buf, mod, hooks,
                   arena_off, arena_need, cur, ti, rows, log, written,
                   out_mod, verify_bin, header, fn>>

\* load the hook map, read the image, size and place the arena
Setup ==
    /\ pc = "setup"
    /\ hooks' = yml
    /\ buf' = base_bin
    /\ rows' = <<>>
    /\ IF script = "inline"
       THEN LET need == per_tramp * Max(1, count_sites(yml, 1))
                off  == find_code_cave(base_bin, need)
            IN  /\ arena_need' = need
                /\ arena_off' = IF off < 0 THEN Len(base_bin) ELSE off
                /\ mod' = IF off < 0 THEN base_bin \o Fill(need, 0) ELSE base_bin
                /\ cur' = arena_off'
                /\ pc' = "loop" /\ err' = err
       ELSE LET need == arena_need_each * Max(1, Len(yml))
                off  == find_code_cave_bps(base_bin, need, None)
            IN  /\ arena_need' = need
                /\ arena_off' = off
                /\ mod' = base_bin
                /\ cur' = IF off < 0 THEN cur ELSE off
                /\ IF off < 0 THEN Abort("CaveExhausted")
                   ELSE pc' = "loop" /\ err' = err
    /\ UNCHANGED <<script, patch_sites, base_bin, expected, yml, ti, log, written,
                   out_mod, verify_bin, header, fn>>

(***************************************************************************)
(* The hook loop.  One step is one execution of the loop body, for the     *)
(* next target of the flattened iteration.  log keeps, per execution, what *)
(* the body printed ([skip] / [ok]) and the values it worked with.         *)
(***************************************************************************)
WorkList == Work(script, hooks, 1)

LogEntry(w, site, outcome, why, tramp_off, stolen, tramp) ==
    [h |-> w.h, name |-> w.name, site |-> site, outcome |-> outcome,
     why |-> why, tramp_off |-> tramp_off, stolen |-> stolen, tramp |-> tramp]

Skip(w, site, why) ==
    /\ log' = Append(log, LogEntry(w, site, "skip", why, None, <<>>, <<>>))
    /\ ti' = ti + 1
    /\ UNCHANGED <<pc, err, mod, cur, rows>>

\* make_inline.py: resolve the site from addr or AOB
inline_site(w, image) ==
    IF w.isAddr THEN w.addr
    ELSE IF w.spec.aob # <<>>
         THEN scan(image, aob_to_pat_mask(w.spec.aob)[1],
                   aob_to_pat_mask(w.spec.aob)[2])
         ELSE None

\* the bytes the trampoline starts with
inline_stolen(image, mutable, site) == Slice(mutable, site, site + STOLEN_SIZE)

\* guard snapshot: <<guard_len, guard_bytes>>; the guard is not compared
inline_guard(image, site, guard) ==
    IF guard # <<>>
    THEN <<Len(aob_to_pat_mask(guard)[1]),
           Slice(image, site, site + Len(aob_to_pat_mask(guard)[1]))>>
    ELSE <<0, <<>>>>

InlineBody(w, site, o1, o2) ==
    LET g         == inline_guard(buf, site, w.spec.guard)
        stolen    == inline_stolen(buf, mod, site)
        tramp_off == cur
        resume_off == site + STOLEN_SIZE
        j1        == asm_abs_jump_va(CODE_BASE + resume_off,
                                     tramp_off + Len(stolen), o1)
        tramp     == stolen \o j1[2]
        mod1      == SliceAssign(mod, tramp_off, tramp_off + Len(tramp), tramp)
        j2        == asm_abs_jump_va(CODE_BASE + tramp_off, site, o2)
        row       == [name |-> w.name, site_off |-> site,
                      tramp_off |-> tramp_off, guard |-> g[2],
                      guard_len |-> g[1]]
    IN  IF site = None \/ site < 0
        THEN Skip(w, site, "no match")
        ELSE IF j1[1]
        THEN /\ Abort("EncodingSizeMismatch")
             /\ log' = Append(log, LogEntry(w, site, "abort", "resume branch",
                                            tramp_off, stolen, <<>>))
             /\ UNCHANGED <<mod, cur, rows, ti>>
        ELSE IF patch_sites /\ j2[1]
        THEN /\ Abort("EncodingSizeMismatch")
             /\ mod' = mod1
             /\ cur' = cur + per_tramp
             /\ log' = Append(log, LogEntry(w, site, "abort", "detour",
                                            tramp_off, stolen, tramp))
             /\ UNCHANGED <<rows, ti>>
        ELSE /\ mod' = IF patch_sites
                       THEN SliceAssign(mod1, site, site + STOLEN_SIZE, j2[2])
                       ELSE mod1
             /\ cur' = cur + per_tramp
             /\ rows' = Append(rows, row)
             /\ log' = Append(log, LogEntry(w, site, "ok", "", tramp_off,
                                            stolen, tramp))
             /\ ti' = ti + 1
             /\ UNCHANGED <<pc, err>>

InlineStep ==
    /\ pc = "loop" /\ script = "inline"
    /\ ti <= Len(WorkList)
    /\ \E site \in {inline_site(WorkList[ti], buf)} :
       \E o1 \in KsOutcomes :
       \E o2 \in (IF patch_sites THEN KsOutcomes ELSE {"ok"}) :
          InlineBody(WorkList[ti], site, o1, o2)
    /\ UNCHANGED <<script, patch_sites, base_bin, expected, yml, buf, hooks, arena_off,
                   arena_need, written, out_mod, verify_bin, header, fn>>

\* make_bps.py: the guard check on the base
bps_guard_ok(image, site_off, guard) ==
    guard = <<>>
    \/ bytes_ok(Slice(image, site_off,
                      site_off + Len(aob_to_bytes_mask(guard)[1])),
                aob_to_bytes_mask(guard)[1], aob_to_bytes_mask(guard)[2])

bps_stolen(image, mutable, site_off) == Slice(mutable, site_off, site_off + STOLEN_BPS)

\* pad to 4-align
bps_pad(t) ==
    LET t1 == IF Len(t) % 2 = 1 THEN t \o NOP16 ELSE t
    IN  IF Len(t1) % 4 # 0 THEN t1 \o NOP16 ELSE t1

bps_site(w, image) ==
    IF w.spec.kind = "one" THEN w.spec.addr[1]
    ELSE IF w.spec.kind = "list" \/ w.spec.aob = <<>> \/ aob_raises(w.spec.aob)
         THEN None
         ELSE scan_aob(image, aob_to_bytes_mask(w.spec.aob)[1],
                       aob_to_bytes_mask(w.spec.aob)[2])

BpsBody(w, site_off, o1, o2) ==
    LET spec      == w.spec
        stolen    == bps_stolen(buf, mod, site_off)
        tramp_off == cur
        resume    == site_off + STOLEN_BPS
        tramp0    == bps_pad(stolen)
        delta     == resume - (tramp_off + Len(tramp0) + 4)
        tramp     == tramp0 \o KsResult(BranchWBytes(delta), o1)
        mod1      == SliceAssign(mod, tramp_off, tramp_off + Len(tramp), tramp)
        detour    == assemble_detour(0, 0, o2)
        row       == [name |-> w.name, site_off |-> site_off,
                      tramp_off |-> tramp_off, resume_off |-> resume,
                      stolen_len |-> STOLEN_BPS]
    IN  IF spec.kind = "list"
        THEN \* int(str(addr), 0) of a list
             /\ Abort("ValueError")
             /\ log' = Append(log, LogEntry(w, None, "abort", "addr", None, <<>>, <<>>))
             /\ UNCHANGED <<mod, cur, rows, ti>>
        ELSE IF spec.kind = "none" /\ spec.aob = <<>>
        THEN Skip(w, None, "no addr/aob")
        ELSE IF spec.kind = "none" /\ aob_raises(spec.aob)
        THEN /\ Abort("ValueError")
             /\ log' = Append(log, LogEntry(w, None, "abort", "aob", None, <<>>, <<>>))
             /\ UNCHANGED <<mod, cur, rows, ti>>
        ELSE IF spec.kind = "none" /\ site_off < 0
        THEN Skip(w, site_off, "no match")
        ELSE IF aob_raises(spec.guard)
        THEN /\ Abort("ValueError")
             /\ log' = Append(log, LogEntry(w, site_off, "abort", "guard", None,
                                            <<>>, <<>>))
             /\ UNCHANGED <<mod, cur, rows, ti>>
        ELSE IF ~bps_guard_ok(buf, site_off, spec.guard)
        THEN Skip(w, site_off, "guard")
        ELSE IF detour[1]
        THEN /\ Abort("EncodingSizeMismatch")
             /\ mod' = mod1
             /\ cur' = cur + arena_need_each
             /\ log' = Append(log, LogEntry(w, site_off, "abort", "detour",
                                            tramp_off, stolen, tramp))
             /\ UNCHANGED <<rows, ti>>
        ELSE /\ mod' = SliceAssign(mod1, site_off, site_off + STOLEN_BPS, detour[2])
             /\ cur' = cur + arena_need_each
             /\ rows' = Append(rows, row)
             /\ log' = Append(log, LogEntry(w, site_off, "ok", "", tramp_off,
                                            stolen, tramp))
             /\ ti' = ti + 1
             /\ UNCHANGED <<pc, err>>

BpsStep ==
    /\ pc = "loop" /\ script = "bps"
    /\ ti <= Len(WorkList)
    /\ \E site_off \in {bps_site(WorkList[ti], buf)} :
       \E o1 \in KsOutcomes : \E o2 \in KsOutcomes :
          BpsBody(WorkList[ti], site_off, o1, o2)
    /\ UNCHANGED <<script, patch_sites, base_bin, expected, yml, buf, hooks, arena_off,
                   arena_need, written, out_mod, verify_bin, header, fn>>

(***************************************************************************)
(* After the loop: the files each script writes, in the order it writes    *)
(* them.                                                                   *)
(***************************************************************************)
F_MOD    == "build/code_mod.bin"
F_HEADER == "plugin/include/hooks_table.hpp"
F_BPS    == "patch/code.bps"
F_VERIFY == "build/code_mod_verify.bin"
F_DIST   == "dist/<TitleID>/exefs/code.bps"

\* unique_names keeping every name, repeated or not
unique_names_keep_all(ids) == ids

RECURSIVE unique_names(_)
unique_names(ids) ==
    IF ids = <<>> THEN <<>>
    ELSE LET front == unique_names(SubSeq(ids, 1, Len(ids) - 1))
             n     == ids[Len(ids)]
         IN  IF \E k \in 1..Len(front) : front[k] = n THEN front
             ELSE Append(front, n)

\* pad = [0] * 8; for i, b in enumerate(g[:8]): pad[i] = b
pad_guard(g) ==
    [k \in 1..GUARD_CAP |-> IF k <= Len(Slice(g, 0, GUARD_CAP)) THEN g[k] ELSE 0]

HeaderOf(rs) ==
    [enum      |-> unique_names([k \in 1..Len(rs) |-> rs[k].name]),
     kNumHooks |-> Len(rs),
     kHooks    |-> [k \in 1..Len(rs) |->
                       [name |-> rs[k].name, site_off |-> rs[k].site_off,
                        tramp_off |-> rs[k].tramp_off,
                        guard |-> pad_guard(rs[k].guard),
                        guard_len |-> rs[k].guard_len]]]

\* make_inline.py: out.write_bytes(mod)
WriteOut ==
    /\ pc = "loop" /\ script = "inline"
    /\ ti > Len(WorkList)
    /\ out_mod' = mod
    /\ written' = Append(written, F_MOD)
    /\ pc' = "emit"
    /\ UNCHANGED <<script, patch_sites, base_bin, expected, yml, err, buf, mod, hooks,
                   arena_off, arena_need, cur, ti, rows, log, verify_bin,
                   header, fn>>

\* make_inline.py: emit the header the plugin includes
EmitHeader ==
    /\ pc = "emit"
    /\ header' = <<HeaderOf(rows)>>
    /\ written' = Append(written, F_HEADER)
    /\ pc' = "done"
    /\ UNCHANGED <<script, patch_sites, base_bin, expected, yml, err, buf, mod, hooks,
                   arena_off, arena_need, cur, ti, rows, log, out_mod,
                   verify_bin, fn>>

\* make_bps.py: out_mod.write_bytes(mod)
WriteMod ==
    /\ pc = "loop" /\ script = "bps"
    /\ ti > Len(WorkList)
    /\ out_mod' = mod
    /\ written' = Append(written, F_MOD)
    /\ pc' = "create"
    /\ UNCHANGED <<script, patch_sites, base_bin, expected, yml, err, buf, mod, hooks,
                   arena_off, arena_need, cur, ti, rows, log, verify_bin,
                   header, fn>>

\* flips_create_bps: the tool is missing or fails, or writes the patch
CreateBps ==
    /\ pc = "create"
    /\ \E ok \in BOOLEAN :
          IF ok THEN /\ written' = Append(written, F_BPS)
                     /\ pc' = "apply" /\ err' = err
          ELSE /\ Abort("FlipsFailed")
               /\ written' = written
    /\ UNCHANGED <<script, patch_sites, base_bin, expected, yml, buf, mod, hooks,
                   arena_off, arena_need, cur, ti, rows, log, out_mod,
                   verify_bin, header, fn>>

\* what applying the patch to the base may reconstruct: the mutated image,
\* or something else
Reconstructions(target) == {target, Slice(target, 0, Len(target) - 1)}

\* flips_apply_bps: the tool fails, or writes its reconstruction
ApplyBps ==
    /\ pc = "apply"
    /\ \/ /\ Abort("FlipsFailed")
          /\ UNCHANGED <<written, verify_bin>>
       \/ \E r \in Reconstructions(out_mod) :
             /\ verify_bin' = r
             /\ written' = Append(written, F_VERIFY)
             /\ pc' = "compare" /\ err' = err
    /\ UNCHANGED <<script, patch_sites, base_bin, expected, yml, buf, mod, hooks,
                   arena_off, arena_need, cur, ti, rows, log, out_mod,
                   header, fn>>

\* verify.read_bytes() != out_mod.read_bytes()
Compare ==
    /\ pc = "compare"
    /\ IF verify_bin # out_mod THEN Abort("VerificationFailed")
       ELSE pc' = "stage" /\ err' = err
    /\ UNCHANGED <<script, patch_sites, base_bin, expected, yml, buf, mod, hooks,
                   arena_off, arena_need, cur, ti, rows, log, written,
                   out_mod, verify_bin, header, fn>>

\* shutil.copy2(out_bps, EXEFS_DIST / "code.bps")
Stage ==
    /\ pc = "stage"
    /\ written' = Append(written, F_DIST)
    /\ pc' = "done"
    /\ UNCHANGED <<script, patch_sites, base_bin, expected, yml, err, buf, mod, hooks,
                   arena_off, arena_need, cur, ti, rows, log, out_mod,
                   verify_bin, header, fn>>

Next ==
    \/ Validate \/ Setup
    \/ InlineStep \/ WriteOut \/ EmitHeader
    \/ BpsStep \/ WriteMod \/ CreateBps \/ ApplyBps \/ Compare \/ Stage

Spec == Init /\ [][Next]_vars

(***************************************************************************)
(* scan and find_code_cave on their own: the inputs are drawn in the       *)
(* initial state, one step applies the function.                           *)
(***************************************************************************)
MainIdle ==
    /\ script = "none" /\ patch_sites = FALSE
    /\ base_bin = <<>> /\ expected = sha1(<<>>) /\ yml = <<>>
    /\ pc = "idle" /\ err = ""
    /\ buf = <<>> /\ mod = <<>> /\ hooks = <<>>
    /\ arena_off = 0 /\ arena_need = 0 /\ cur = 0 /\ ti = 1
    /\ rows = <<>> /\ log = <<>> /\ written = <<>>
    /\ out_mod = <<>> /\ verify_bin = <<>> /\ header = <<>>

Nibbles   == 0..15 \cup {Q}
AllTokens == Nibbles \X Nibbles
ScanBytes == {0, 26, 160, 170}
ScanToks  == {<<Q, Q>>, <<10, Q>>, <<Q, 10>>, <<10, 10>>, <<1, 10>>, <<0, 0>>}

ScanInput(i, a) ==
    [op |-> "scan", image |-> i, aob |-> a, done |-> FALSE, res |-> 0]

InitScan ==
    /\ MainIdle
    /\ \/ \* every byte value against every token
          \E b \in 0..255 : \E t \in AllTokens : fn = ScanInput(<<b>>, <<t>>)
       \/ \E i \in SeqsUpTo(ScanBytes, MaxScanLen) :
          \E a \in SeqsUpTo(ScanToks, MaxPatLen) : fn = ScanInput(i, a)

\* scan_aob(a) of make_inline.py: aob_to_pat_mask, then scan
DoScan ==
    /\ fn.op = "scan" /\ ~fn.done
    /\ fn' = [fn EXCEPT !.done = TRUE,
                        !.res = scan(fn.image, aob_to_pat_mask(fn.aob)[1],
                                     aob_to_pat_mask(fn.aob)[2])]
    /\ UNCHANGED mainVars

NextScan == DoScan

SpecScan == InitScan /\ [][NextScan]_vars

CaveBytes == {0, 255, 65}

InitCave ==
    /\ MainIdle
    /\ \E i \in SeqsUpTo(CaveBytes, MaxCaveLen) : \E n \in 1..MaxNeed :
          fn = [op |-> "cave", image |-> i, need |-> n, done |-> FALSE,
                res |-> 0, res_bps |-> 0]

DoCave ==
    /\ fn.op = "cave" /\ ~fn.done
    /\ fn' = [fn EXCEPT !.done = TRUE,
                        !.res = find_code_cave(fn.image, fn.need),
                        !.res_bps = find_code_cave_bps(fn.image, fn.need, None)]
    /\ UNCHANGED mainVars

NextCave == DoCave

SpecCave == InitCave /\ [][NextCave]_vars

(***************************************************************************)
(* What the specification says of patterns and caves, stated without the   *)
(* code's pattern/mask arrays and loops.                                   *)
(***************************************************************************)
TokMatches(tok, byte) ==
    /\ tok[1] = Q \/ tok[1] = byte \div 16
    /\ tok[2] = Q \/ tok[2] = byte % 16

MatchesAt(image, aob, i) ==
    /\ 0 <= i /\ i + Len(aob) <= Len(image)
    /\ \A k \in 1..Len(aob) : TokMatches(aob[k], image[i + k])

LeastOf(S) == IF S = {} THEN -1 ELSE CHOOSE i \in S : \A j \in S : i <= j
GreatestOf(S) == IF S = {} THEN -1 ELSE CHOOSE i \in S : \A j \in S : j <= i

LeastMatch(image, aob) ==
    LeastOf({i \in 0..(Len(image) - Len(aob)) : MatchesAt(image, aob, i)})

AllFixed(aob) == \A k \in 1..Len(aob) : aob[k][1] # Q /\ aob[k][2] # Q

FixedBytes(aob) == [k \in 1..Len(aob) |-> aob[k][1] * 16 + aob[k][2]]

SubstringSearch(image, bytes) ==
    LeastOf({i \in 0..(Len(image) - Len(bytes)) :
                SubSeq(image, i + 1, i + Len(bytes)) = bytes})

CaveAt(image, need, i) ==
    /\ 0 <= i /\ i + need <= Len(image)
    /\ \A k \in (i + 1)..(i + need) : image[k] \in {0, 255}

GreatestCave(image, need) ==
    GreatestOf({i \in 0..Len(image) : CaveAt(image, need, i)})

\* C6: aob_to_pat_mask followed by scan returns the least offset at which
\* every fixed nibble of every token equals the image's nibble, and -1 if
\* there is none; "??" matches every byte, "A?" exactly 0xA0..0xAF, "?A"
\* exactly the bytes with low nibble A; a pattern of fixed bytes is found
\* where a byte-for-byte substring search finds it.
C6_ScanLeastMatch ==
    (fn.op = "scan" /\ fn.done) =>
        /\ fn.res = LeastMatch(fn.image, fn.aob)
        /\ (Len(fn.image) = 1 /\ fn.aob = <<<<Q, Q>>>>) => fn.res = 0
        /\ (Len(fn.image) = 1 /\ fn.aob = <<<<10, Q>>>>) =>
               (fn.res = 0 <=> fn.image[1] \in 160..175)
        /\ (Len(fn.image) = 1 /\ fn.aob = <<<<Q, 10>>>>) =>
               (fn.res = 0 <=> fn.image[1] % 16 = 10)
        /\ AllFixed(fn.aob) =>
               fn.res = SubstringSearch(fn.image, FixedBytes(fn.aob))

\* a two-token pattern with one wildcard in each nibble position, found at
\* offset 1 and not at offset 0
C6_Witness ==
    /\ fn.op = "scan" /\ fn.done
    /\ fn.aob = <<<<10, Q>>, <<Q, 10>>>>
    /\ Len(fn.image) = 3
    /\ fn.res = 1

\* C8: for need >= 1 find_code_cave returns the greatest offset whose
\* window of need bytes lies inside the image and holds only 0x00 / 0xFF,
\* -1 exactly when there is none, and the two variants agree.
C8_GreatestCave ==
    (fn.op = "cave" /\ fn.done) =>
        /\ fn.res = GreatestCave(fn.image, fn.need)
        /\ fn.res_bps = fn.res

\* a cave that is not at the end of the image, below a shorter filler run
C8_Witness ==
    /\ fn.op = "cave" /\ fn.done
    /\ fn.need = 2 /\ Len(fn.image) = 5
    /\ fn.image[5] = 0 /\ fn.image[4] = 65
    /\ fn.res = 1 /\ fn.res_bps = 1

(***************************************************************************)
(* The hook loop.                                                          *)
(***************************************************************************)
W == StolenLen(script)
Slot == SlotSize(script)

Accepted == {k \in 1..Len(log) : log[k].outcome = "ok"}

InRange(site) == 0 <= site /\ site + W <= Len(buf)

\* C1: no two accepted sites' stolen windows [site, site+W) overlap; a site
\* whose window would overlap one claimed earlier aborts the run instead of
\* being patched and recorded.  (Stated for sites whose window lies inside
\* the image.)
C1_NoOverlappingSites ==
    \A i, j \in 1..Len(rows) :
        (i < j /\ InRange(rows[i].site_off) /\ InRange(rows[j].site_off)) =>
            \/ rows[i].site_off + W <= rows[j].site_off
            \/ rows[j].site_off + W <= rows[i].site_off

\* C2: the stolen bytes an accepted site's trampoline starts with are the
\* bytes of the original image at [site, site+W), whatever earlier sites
\* wrote into the mutable buffer.  (Stated for sites whose window lies
\* inside the image.)
C2_StolenFromOriginal ==
    \A k \in Accepted :
        InRange(log[k].site) =>
        /\ log[k].stolen = Slice(buf, log[k].site, log[k].site + W)
        /\ Slice(log[k].tramp, 0, Len(log[k].stolen)) = log[k].stolen

\* the target the loop body is about to process
AtTarget == pc = "loop" /\ ti <= Len(WorkList)

ResolvedSite(w) ==
    IF script = "inline" THEN inline_site(w, buf) ELSE bps_site(w, buf)

GuardMatches(image, site, guard) ==
    \A k \in 1..Len(guard) :
        site + k <= Len(image) /\ TokMatches(guard[k], image[site + k])

GuardFails(w) ==
    /\ w.spec.guard # <<>>
    /\ script = "bps" => w.spec.kind # "list"
    /\ ResolvedSite(w) # None /\ ResolvedSite(w) >= 0
    /\ ~GuardMatches(buf, ResolvedSite(w), w.spec.guard)

\* the loop body left everything but its position alone and went on
SkippedOver ==
    /\ mod' = mod /\ cur' = cur /\ rows' = rows /\ written' = written
    /\ pc' = "loop" /\ err' = "" /\ ti' = ti + 1

\* C3: a hook whose guard pattern does not match the original bytes at the
\* resolved site consumes no trampoline slot, changes no byte of the
\* mutable image, emits no record, and the run goes on with the next one.
C3_GuardMismatchSkips ==
    [][(AtTarget /\ GuardFails(WorkList[ti])) => SkippedOver]_vars

Has(f) == \E k \in 1..Len(written) : written[k] = f

\* C4: when the reconstruction differs from the mutated image the run fails
\* with VerificationFailed and has written neither the patch, nor the
\* mutated image, nor the staged copy.
C4_NoArtifactOnVerificationFailure ==
    (Has(F_VERIFY) /\ verify_bin # out_mod /\ pc # "compare") =>
        /\ pc = "aborted" /\ err = "VerificationFailed"
        /\ ~Has(F_BPS) /\ ~Has(F_MOD) /\ ~Has(F_DIST)

ExplicitAddr(e) ==
    \/ hooks[e.h].kind = "one"
    \/ script = "inline" /\ hooks[e.h].kind = "list"

OutOfRange(site) == ~InRange(site)

\* C5: a hook whose explicit address does not leave its whole stolen window
\* inside the image aborts the run: nothing is changed or appended for it,
\* no record is emitted and no output file is written.
C5_OutOfRangeAborts ==
    \A k \in 1..Len(log) :
        (ExplicitAddr(log[k]) /\ OutOfRange(log[k].site)) =>
            /\ log[k].outcome = "abort" /\ k = Len(log)
            /\ pc = "aborted" /\ written = <<>>
            /\ \A r \in 1..Len(rows) : rows[r].site_off # log[k].site

PatternTarget(w) ==
    /\ w.spec.aob # <<>>
    /\ IF script = "inline" THEN ~w.isAddr ELSE w.spec.kind = "none"

\* C7: a hook whose pattern has no match in the original image is skipped
\* without aborting: no trampoline slot is consumed, no byte of the mutable
\* image changes, no record is emitted, and the loop goes on with the hook
\* declared next.
C7_NoMatchSkips ==
    [][(AtTarget /\ PatternTarget(WorkList[ti])
        /\ LeastMatch(buf, WorkList[ti].spec.aob) = -1) => SkippedOver]_vars

WholeByteTokens(aob) ==
    \A k \in 1..Len(aob) : (aob[k][1] = Q) = (aob[k][2] = Q)

\* The same skip, in make_bps.py only for the patterns it can parse: tokens
\* "??" or two hex digits.
C7_NoMatchSkipsWholeBytes ==
    [][(AtTarget /\ PatternTarget(WorkList[ti])
        /\ (script = "bps" => WholeByteTokens(WorkList[ti].spec.aob))
        /\ LeastMatch(buf, WorkList[ti].spec.aob) = -1) => SkippedOver]_vars

SetupDone == pc \notin {"validate", "setup"} /\ err # "RegionMismatch"

\* C9: when the image holds no filler run of the required length the
\* allocation does not fail: the image is extended by exactly the required
\* number of zero bytes, the arena starts at the old image length, and no
\* byte of the image as it was is changed by the allocation.  (The required
\* length is the one the script computes, arena_need.)
C9_ArenaGrowth ==
    (SetupDone /\ GreatestCave(base_bin, arena_need) = -1) =>
        /\ err # "CaveExhausted"
        /\ arena_off = Len(base_bin)
        /\ log = <<>> => mod = base_bin \o Fill(arena_need, 0)

\* C10: the k-th accepted site (from 0) has its trampoline at
\* arena_off + k * slot_size; a trampoline's bytes never extend past its
\* slot; every slot lies inside [arena_off, arena_off + arena_need); so no
\* slot is handed out twice and no two trampolines overlap.
C10_SequentialSlots ==
    /\ \A k \in 1..Len(rows) :
          /\ rows[k].tramp_off = arena_off + (k - 1) * Slot
          /\ arena_off <= rows[k].tramp_off
          /\ rows[k].tramp_off + Slot <= arena_off + arena_need
    /\ \A k \in 1..Len(log) :
          log[k].tramp # <<>> =>
              /\ Len(log[k].tramp) <= Slot
              /\ arena_off <= log[k].tramp_off
              /\ log[k].tramp_off + Slot <= arena_off + arena_need
    /\ \A i, j \in 1..Len(log) :
          (i < j /\ log[i].tramp # <<>> /\ log[j].tramp # <<>>) =>
              log[i].tramp_off + Slot <= log[j].tramp_off
    /\ Cardinality(Accepted) = Len(rows)

\* two sites accepted after a skipped one
C10_Witness ==
    /\ Len(rows) = 2 /\ Len(log) = 3
    /\ log[1].outcome = "skip"
    /\ rows[2].tramp_off = arena_off + Slot

(***************************************************************************)
(* The encoder's answers, read back from what the loop body worked with.   *)
(***************************************************************************)
\* the contractual size of the trampoline's resume branch: the 8-byte
\* absolute jump (ARM), the 4-byte B.W (Thumb)
BranchSize == IF script = "inline" THEN Len(AbsJumpBytes(0))
              ELSE Len(BranchWBytes(0))

\* what the trampoline holds before its resume branch
TrampHead(e) == IF script = "inline" THEN e.stolen ELSE bps_pad(e.stolen)

\* the encoder gave this target a branch of another length than contracted
BadEncoding(e) ==
    \/ e.outcome = "abort" /\ e.why \in {"resume branch", "detour"}
    \/ e.tramp # <<>> /\ Len(e.tramp) - Len(TrampHead(e)) # BranchSize

EncodingAbort(k) ==
    /\ log[k].outcome = "abort" /\ k = Len(log)
    /\ pc = "aborted" /\ err = "EncodingSizeMismatch"
    /\ written = <<>> /\ out_mod = <<>> /\ header = <<>>

\* C11: whenever the encoder returns a branch encoding (resume branch or
\* site detour) whose length is not the contractual branch size, the run
\* aborts at once with EncodingSizeMismatch: no later site is processed and
\* no mutated image, hook table or patch is written.  (Stated for sites
\* whose window lies inside the image.)
C11_EncodingMismatchAborts ==
    \A k \in 1..Len(log) :
        (InRange(log[k].site) /\ BadEncoding(log[k])) => EncodingAbort(k)

\* The same for every site, where both encodings go through
\* asm_abs_jump_va.
C11_InlineMismatchAborts ==
    script = "inline" =>
        \A k \in 1..Len(log) : BadEncoding(log[k]) => EncodingAbort(k)

(***************************************************************************)
(* The site's bytes once the site is accepted.                             *)
(***************************************************************************)
\* full-patch mode: make_inline.py --patch-sites; make_bps.py has no such
\* mode
FullPatch == script = "inline" /\ patch_sites

\* this step accepted a site
Accepts == Len(rows') = Len(rows) + 1

NewRow == rows'[Len(rows')]

\* the step changed no byte of the mutable image outside the site's window
\* and the trampoline's slot, and did not change its length
OnlyWindowAndSlot(site, tramp_off) ==
    /\ Len(mod') = Len(mod)
    /\ \A i \in 0..(Len(mod) - 1) :
          \/ site <= i /\ i < site + W
          \/ tramp_off <= i /\ i < tramp_off + Slot
          \/ mod'[i + 1] = mod[i + 1]

SiteBranch(r) == AbsJumpBytes(CODE_BASE + r.tramp_off)

\* C12: for every accepted site, in full-patch mode exactly the W bytes
\* [site, site+W) of the mutable image are overwritten with the encoding of
\* a branch from the site to the start of its trampoline; otherwise the W
\* bytes at the site are left as a zero-filled placeholder of length W.
\* (Stated for sites whose window lies inside the image.)
C12_SiteBytes ==
    [][(Accepts /\ InRange(NewRow.site_off)) =>
          /\ OnlyWindowAndSlot(NewRow.site_off, NewRow.tramp_off)
          /\ Slice(mod', NewRow.site_off, NewRow.site_off + W)
                = IF FullPatch THEN SiteBranch(NewRow) ELSE Fill(W, 0)]_vars

\* The full-patch half on its own.
C12_FullPatchDetour ==
    [][(Accepts /\ FullPatch /\ InRange(NewRow.site_off)) =>
          /\ OnlyWindowAndSlot(NewRow.site_off, NewRow.tramp_off)
          /\ Slice(mod', NewRow.site_off, NewRow.site_off + W)
                = SiteBranch(NewRow)]_vars

(***************************************************************************)
(* The hook table (hooks_table.hpp, make_inline.py).                       *)
(***************************************************************************)
\* the accepted targets, in the order the loop applied them
AcceptedSeq == SelectSeq(log, LAMBDA e : e.outcome = "ok")

Table == header[1]

FirstAccepted(n) ==
    CHOOSE k \in 1..Len(AcceptedSeq) :
        /\ AcceptedSeq[k].name = n
        /\ \A j \in 1..(k - 1) : AcceptedSeq[j].name # n

\* C13: the emitted hook table holds exactly one record per accepted site,
\* in the order the sites were applied (kNumHooks is that count, records
\* sharing a name are all kept); its HookId enumeration lists each distinct
\* accepted hook name exactly once, in first-seen order; a skipped site
\* contributes neither a record nor an enumeration entry.
C13_HookTable ==
    header # <<>> =>
        /\ Table.kNumHooks = Len(AcceptedSeq)
        /\ Len(Table.kHooks) = Len(AcceptedSeq)
        /\ \A k \in 1..Len(AcceptedSeq) :
              /\ Table.kHooks[k].name = AcceptedSeq[k].name
              /\ Table.kHooks[k].site_off = AcceptedSeq[k].site
              /\ Table.kHooks[k].tramp_off = AcceptedSeq[k].tramp_off
        /\ {Table.enum[i] : i \in 1..Len(Table.enum)}
              = {AcceptedSeq[k].name : k \in 1..Len(AcceptedSeq)}
        /\ \A i, j \in 1..Len(Table.enum) :
              i < j => /\ Table.enum[i] # Table.enum[j]
                       /\ FirstAccepted(Table.enum[i])
                             < FirstAccepted(Table.enum[j])

\* a table of three records, two of them of the hook declared second, whose
\* enumeration has two entries
C13_Witness ==
    /\ header # <<>>
    /\ Table.kNumHooks = 3
    /\ Table.enum = <<"hookA", "hookB">>
    /\ Table.kHooks[2].name = "hookB" /\ Table.kHooks[3].name = "hookB"

\* a table after a skipped hook: it holds the other hook only
C13_WitnessSkip ==
    /\ header # <<>>
    /\ Len(log) = 2 /\ log[1].outcome = "skip"
    /\ Table.kNumHooks = 1 /\ Table.enum = <<"hookB">>

\* the guard pattern of the hook a record was emitted for
GuardOf(k) == hooks[AcceptedSeq[k].h].guard

GuardField(k) ==
    /\ Len(Table.kHooks[k].guard) = GUARD_CAP
    /\ Table.kHooks[k].guard_len <= GUARD_CAP
    /\ Table.kHooks[k].guard_len = Len(rows[k].guard)
    /\ \A i \in 1..GUARD_CAP :
          Table.kHooks[k].guard[i]
            = IF i <= Table.kHooks[k].guard_len
              THEN buf[Table.kHooks[k].site_off + i] ELSE 0
    /\ GuardOf(k) = <<>> =>
          /\ Table.kHooks[k].guard_len = 0
          /\ Table.kHooks[k].guard = Fill(GUARD_CAP, 0)

\* C14: every emitted hook record has a guard field of exactly 8 bytes and
\* a guard length that never exceeds 8 and is the number of bytes actually
\* captured: the first guard_len bytes are the original image's bytes at
\* [site, site+guard_len), the others are zero, and a hook without a guard
\* has an all-zero field and guard_len 0.  (Stated for sites whose window
\* lies inside the image.)
C14_GuardField ==
    header # <<>> =>
        \A k \in 1..Len(Table.kHooks) :
            InRange(Table.kHooks[k].site_off) => GuardField(k)

\* The same for the guards of at most eight tokens.
C14_ShortGuardField ==
    header # <<>> =>
        \A k \in 1..Len(Table.kHooks) :
            (InRange(Table.kHooks[k].site_off) /\ Len(GuardOf(k)) <= GUARD_CAP)
                => GuardField(k)

(***************************************************************************)
(* Fingerprint validation.                                                 *)
(***************************************************************************)
\* nothing of the run has happened: no hook map, no image in memory, no
\* arena, no hook processed, no file written
Untouched ==
    /\ hooks = <<>> /\ buf = <<>> /\ mod = <<>>
    /\ arena_off = 0 /\ arena_need = 0 /\ cur = 0
    /\ ti = 1 /\ rows = <<>> /\ log = <<>>
    /\ written = <<>> /\ out_mod = <<>> /\ verify_bin = <<>> /\ header = <<>>

FingerprintDiffers == sha1(base_bin) # expected

\* C15: fingerprint validation precedes all hook processing: when the
\* SHA-1 of the base image differs from the region's expected fingerprint
\* the run aborts before the hook map is loaded, a cave allocated, a byte
\* mutated or an output file written; hooks are processed only in runs
\* whose validation passed.
C15_ValidationFirst ==
    /\ pc = "validate" => Untouched
    /\ FingerprintDiffers =>
          /\ Untouched
          /\ pc \in {"validate", "aborted"}
          /\ pc = "aborted" => err = "RegionMismatch"
    /\ (pc = "aborted" /\ err = "RegionMismatch") => FingerprintDiffers

\* a run aborted on an image that is not the region's
C15_Witness ==
    /\ pc = "aborted" /\ err = "RegionMismatch"
    /\ FingerprintDiffers /\ yml # <<>> /\ Untouched

(***************************************************************************)
(* The mutated image as written, against the original.                     *)
(***************************************************************************)
InWindow(i) ==
    \E k \in 1..Len(rows) :
        rows[k].site_off <= i /\ i < rows[k].site_off + W

InTrampoline(i) ==
    \E k \in Accepted :
        log[k].tramp_off <= i /\ i < log[k].tramp_off + Len(log[k].tramp)

InArena(i) == arena_off <= i /\ i < arena_off + arena_need

CaveFound == GreatestCave(base_bin, arena_need) # -1

FrameOfWrittenImage ==
    /\ buf = base_bin
    /\ Len(out_mod) = IF CaveFound THEN Len(base_bin)
                      ELSE Len(base_bin) + arena_need
    /\ \A i \in 0..(Len(out_mod) - 1) :
          IF i < Len(base_bin)
          THEN out_mod[i + 1] # base_bin[i + 1] =>
                   \/ InWindow(i)
                   \/ InArena(i) /\ InTrampoline(i)
          ELSE InArena(i)

\* C16: at the end of any run the written mutated image differs from the
\* original only inside the stolen windows [site, site+W) of the accepted
\* sites and inside the trampoline bytes written in the arena
\* [arena_off, arena_off+arena_need); the in-memory original is never
\* written; the image's length is the original's when a cave was found and
\* the original's plus arena_need when the arena was appended.
C16_WrittenImageFrame == Has(F_MOD) => FrameOfWrittenImage

\* The same for the runs all of whose accepted sites have their window
\* inside the image.
C16_InRangeFrame ==
    (Has(F_MOD) /\ \A k \in 1..Len(rows) : InRange(rows[k].site_off))
        => FrameOfWrittenImage

====
